---- MODULE Spec2Model ----
(***************************************************************************)
(* Model of fix_openapi.py: the recursive rewrite fix_examples over a      *)
(* parsed YAML document and the two-file script that applies it.           *)
(*                                                                         *)
(* Python dicts and lists are mutable objects that are shared by           *)
(* reference, so the document lives in a heap: a sequence of objects       *)
(* indexed by address.  A value is a scalar (null, number, string) or a    *)
(* reference to a heap object.  Strings are sequences of characters so     *)
(* that Python's substring test `'examples' in s` is computed, not         *)
(* assumed.  A document on disk is a tree value (no sharing).              *)
(***************************************************************************)
EXTENDS Integers, Sequences, FiniteSets, TLC

VARIABLES input, heap, root, err, log, calls, out1,
          pc, disk, data, printed, ops

vars == <<input, heap, root, err, log, calls, out1, pc, disk, data, printed, ops>>

fnVars == <<input, heap, root, err, log, calls, out1>>

runVars == <<pc, disk, data, printed, ops>>

(***************************************************************************)
(* Values                                                                  *)
(***************************************************************************)
Null == [kind |-> "null"]

Num(n) == [kind |-> "num", n |-> n]

Str(cs) == [kind |-> "str", s |-> cs]

Ref(a) == [kind |-> "ref", a |-> a]

\* tree values (documents on disk, inputs, dumped outputs)
SeqT(es) == [kind |-> "seq", elems |-> es]

MapT(es) == [kind |-> "map", ents |-> es]

Ent(k, v) == [key |-> k, val |-> v]

\* the string literals of the source
EXAMPLES == <<"e", "x", "a", "m", "p", "l", "e", "s">>

SCHEMA == <<"s", "c", "h", "e", "m", "a">>

CONTENT == <<"c", "o", "n", "t", "e", "n", "t">>

Lit(k) ==
  CASE k = "schema" -> SCHEMA
    [] k = "examples" -> EXAMPLES
    [] k = "content" -> CONTENT

IsScalar(v) == v.kind \in {"null", "num", "str"}

IsMapRef(h, v) == v.kind = "ref" /\ h[v.a].kind = "map"

IsSeqRef(h, v) == v.kind = "ref" /\ h[v.a].kind = "seq"

(***************************************************************************)
(* dict operations on an entry sequence (insertion ordered, unique keys)   *)
(***************************************************************************)
Keys(es) == [i \in 1..Len(es) |-> es[i].key]

HasKey(es, k) == \E i \in 1..Len(es) : es[i].key = k

IndexOf(es, k) == CHOOSE i \in 1..Len(es) : es[i].key = k

Get(es, k) == es[IndexOf(es, k)].val

\* mutant of Remove: the value is read with get(), the entry stays
RemoveKeeps(es, k) == es

\* mutant of Remove: the entry that goes is the first one (popitem-like)
RemoveFirst(es, k) == SubSeq(es, 2, Len(es))

\* dict.pop(k): the entry is removed, the others keep their order
Remove(es, k) ==
  LET i == IndexOf(es, k)
  IN  SubSeq(es, 1, i - 1) \o SubSeq(es, i + 1, Len(es))

\* mutant of Put: a new key goes first
PutFront(es, k, v) ==
  IF HasKey(es, k)
  THEN [es EXCEPT ![IndexOf(es, k)] = Ent(k, v)]
  ELSE <<Ent(k, v)>> \o es

\* d[k] = v: an existing key keeps its position, a new key goes last
Put(es, k, v) ==
  IF HasKey(es, k)
  THEN [es EXCEPT ![IndexOf(es, k)] = Ent(k, v)]
  ELSE Append(es, Ent(k, v))

\* needle occurs in hay as a contiguous subsequence (str.__contains__)
Substr(needle, hay) ==
  \E i \in 0..(Len(hay) - Len(needle)) :
    SubSeq(hay, i + 1, i + Len(needle)) = needle

\* Python's `k in v` for a string literal k: dict -> key test, list ->
\* element equality, str -> substring, None/int -> TypeError
PyIn(h, k, v) ==
  CASE v.kind = "ref" /\ h[v.a].kind = "map" ->
         IF HasKey(h[v.a].ents, k) THEN "T" ELSE "F"
    [] v.kind = "ref" /\ h[v.a].kind = "seq" ->
         IF \E i \in 1..Len(h[v.a].elems) : h[v.a].elems[i] = Str(Lit(k))
         THEN "T" ELSE "F"
    [] v.kind = "str" -> IF Substr(Lit(k), v.s) THEN "T" ELSE "F"
    [] OTHER -> "TypeError"

(***************************************************************************)
(* yaml.safe_load / yaml.dump: a tree on disk <-> objects in the heap      *)
(***************************************************************************)
RECURSIVE Load(_, _), LoadAll(_, _, _, _)

\* builds the objects of tree t; every mapping and sequence is a fresh object
Load(h, t) ==
  IF t.kind = "map"
  THEN LET r == LoadAll(h, [i \in 1..Len(t.ents) |-> t.ents[i].val], 1, <<>>)
           obj == [kind |-> "map",
                   ents |-> [i \in 1..Len(t.ents) |->
                               Ent(t.ents[i].key, r.vals[i])]]
       IN  [heap |-> Append(r.heap, obj), val |-> Ref(Len(r.heap) + 1)]
  ELSE IF t.kind = "seq"
  THEN LET r == LoadAll(h, t.elems, 1, <<>>)
           obj == [kind |-> "seq", elems |-> r.vals]
       IN  [heap |-> Append(r.heap, obj), val |-> Ref(Len(r.heap) + 1)]
  ELSE [heap |-> h, val |-> t]

LoadAll(h, ts, i, acc) ==
  IF i > Len(ts)
  THEN [heap |-> h, vals |-> acc]
  ELSE LET r == Load(h, ts[i])
       IN  LoadAll(r.heap, ts, i + 1, Append(acc, r.val))

RECURSIVE Dump(_, _)

\* the document that value v denotes (shared objects are written out in full)
Dump(h, v) ==
  IF v.kind # "ref" THEN v
  ELSE IF h[v.a].kind = "map"
  THEN MapT([i \in 1..Len(h[v.a].ents) |->
               Ent(h[v.a].ents[i].key, Dump(h, h[v.a].ents[i].val))])
  ELSE SeqT([i \in 1..Len(h[v.a].elems) |-> Dump(h, h[v.a].elems[i])])

(***************************************************************************)
(* fix_examples                                                            *)
(***************************************************************************)
RECURSIVE AttachFirstOnly(_, _, _, _, _)

\* mutant of AttachLoop: the loop breaks after the first entry it sets
AttachFirstOnly(h, ca, i, n0, ev) ==
  IF i > n0
  THEN [heap |-> h, err |-> "none", moved |-> TRUE]
  ELSE LET ct == h[ca].ents[i].val
           t == PyIn(h, "schema", ct)
       IN  CASE t = "TypeError" ->
                  [heap |-> h, err |-> "TypeError", moved |-> TRUE]
             [] t = "F" -> AttachFirstOnly(h, ca, i + 1, n0, ev)
             [] t = "T" ->
                  IF IsMapRef(h, ct)
                  THEN [heap |-> [h EXCEPT ![ct.a].ents =
                                    Put(@, "examples", ev)],
                        err |-> "none", moved |-> TRUE]
                  ELSE [heap |-> h, err |-> "TypeError", moved |-> TRUE]

RECURSIVE AttachLoop(_, _, _, _, _)

\* lines 14-16: for content_type in data['content'].values(): ...
\* ca is the content dict, n0 its size when the iteration started, ev the
\* detached examples value
AttachLoop(h, ca, i, n0, ev) ==
  IF Len(h[ca].ents) # n0
  THEN [heap |-> h, err |-> "RuntimeError", moved |-> TRUE]
  ELSE IF i > n0
  THEN [heap |-> h, err |-> "none", moved |-> TRUE]
  ELSE LET ct == h[ca].ents[i].val
           t == PyIn(h, "schema", ct)
       IN  CASE t = "TypeError" ->
                  [heap |-> h, err |-> "TypeError", moved |-> TRUE]
             [] t = "F" -> AttachLoop(h, ca, i + 1, n0, ev)
             [] t = "T" ->
                  IF IsMapRef(h, ct)
                  THEN AttachLoop(
                         [h EXCEPT ![ct.a].ents = Put(@, "examples", ev)],
                         ca, i + 1, n0, ev)
                  ELSE [heap |-> h, err |-> "TypeError", moved |-> TRUE]

\* lines 10-16 at the dict at address a.  moved: line 12 was reached.
Relocate(h, a) ==
  LET es == h[a].ents
  IN  IF ~HasKey(es, "schema")
      THEN [heap |-> h, err |-> "none", moved |-> FALSE]
      ELSE
        LET sv == Get(es, "schema")
            t == PyIn(h, "examples", sv)
        IN  CASE t = "TypeError" ->
                   [heap |-> h, err |-> "TypeError", moved |-> FALSE]
              [] t = "F" -> [heap |-> h, err |-> "none", moved |-> FALSE]
              [] t = "T" ->
                   IF ~IsMapRef(h, sv)
                   THEN [heap |-> h,
                         err |-> IF sv.kind = "str" THEN "AttributeError"
                                                    ELSE "TypeError",
                         moved |-> TRUE]
                   ELSE
                     LET ev == Get(h[sv.a].ents, "examples")
                         h1 == [h EXCEPT ![sv.a].ents = Remove(@, "examples")]
                     IN  IF ~HasKey(h1[a].ents, "content")
                         THEN [heap |-> h1, err |-> "none", moved |-> TRUE]
                         ELSE
                           LET cv == Get(h1[a].ents, "content")
                           IN  IF ~IsMapRef(h1, cv)
                               THEN [heap |-> h1, err |-> "AttributeError",
                                     moved |-> TRUE]
                               ELSE AttachLoop(h1, cv.a, 1,
                                               Len(h1[cv.a].ents), ev)

\* one record of the visit log: the dict visited, the heap before and after
\* lines 10-16 ran on it, and the exception they raised
Visit(a, h, r) ==
  [node |-> a, pre |-> h, post |-> r.heap, err |-> r.err, moved |-> r.moved]

\* mutant of FixList: the list is copied, its items are not rewritten
FixListShallow(st, elems, i, acc, stk) ==
  [heap |-> Append(st.heap, [kind |-> "seq", elems |-> elems]),
   err |-> st.err, log |-> st.log, val |-> Ref(Len(st.heap) + 1)]

RECURSIVE fix_examples(_, _, _), FixItems(_, _, _, _, _), FixList(_, _, _, _, _)

\* st = [heap, err, log]; stk = the dicts whose call is still active.  A call
\* on a dict that is already active never returns in Python (the structure
\* is cyclic), which ends in RecursionError.
fix_examples(st, v, stk) ==
  IF IsMapRef(st.heap, v)
  THEN IF v.a \in stk
       THEN [heap |-> st.heap, err |-> "RecursionError", log |-> st.log,
             val |-> v]
       ELSE LET r == Relocate(st.heap, v.a)
                st1 == [heap |-> r.heap, err |-> r.err,
                        log |-> Append(st.log, Visit(v.a, st.heap, r))]
            IN  IF r.err # "none"
                THEN [heap |-> st1.heap, err |-> st1.err, log |-> st1.log,
                      val |-> v]
                ELSE FixItems(st1, v.a, 1, Len(r.heap[v.a].ents),
                              stk \cup {v.a})
  ELSE IF IsSeqRef(st.heap, v)
  THEN FixList(st, st.heap[v.a].elems, 1, <<>>, stk)
  ELSE [heap |-> st.heap, err |-> st.err, log |-> st.log, val |-> v]

\* lines 19-20: for key, value in data.items(): data[key] = fix_examples(value)
FixItems(st, a, i, n0, stk) ==
  IF Len(st.heap[a].ents) # n0
  THEN [heap |-> st.heap, err |-> "RuntimeError", log |-> st.log,
        val |-> Ref(a)]
  ELSE IF i > n0
  THEN [heap |-> st.heap, err |-> st.err, log |-> st.log, val |-> Ref(a)]
  ELSE LET e == st.heap[a].ents[i]
           r == fix_examples(st, e.val, stk)
       IN  IF r.err # "none"
           THEN r
           ELSE FixItems(
                  [heap |-> [r.heap EXCEPT ![a].ents = Put(@, e.key, r.val)],
                   err |-> r.err, log |-> r.log],
                  a, i + 1, n0, stk)

\* line 23: return [fix_examples(item) for item in data], a new list object
FixList(st, elems, i, acc, stk) ==
  IF i > Len(elems)
  THEN [heap |-> Append(st.heap, [kind |-> "seq", elems |-> acc]),
        err |-> st.err, log |-> st.log, val |-> Ref(Len(st.heap) + 1)]
  ELSE LET r == fix_examples(st, elems[i], stk)
       IN  IF r.err # "none"
           THEN r
           ELSE FixList([heap |-> r.heap, err |-> r.err, log |-> r.log],
                        elems, i + 1, Append(acc, r.val), stk)

\* a call from outside: fix_examples(data) on heap h
Call(h, v) == fix_examples([heap |-> h, err |-> "none", log |-> <<>>], v, {})

(***************************************************************************)
(* Input documents                                                         *)
(***************************************************************************)
\* content mappings have at most MaxMedia entries
MaxMedia == 2

\* a node is placed under at most MaxWrap enclosing mappings and sequences
MaxWrap == 3

StrS == Str(<<"s">>)

\* {type: s}, the usual schema body
Obj == MapT(<<Ent("type", StrS)>>)

\* {schema: {type: s}}, the usual media-type entry
Media == MapT(<<Ent("schema", Obj)>>)

\* values found under schema.examples
ExVals ==
  { StrS,
    MapT(<<Ent("foo", Num(1))>>),
    MapT(<<Ent("schema", MapT(<<Ent("examples", Num(2))>>))>>),
    SeqT(<<MapT(<<Ent("schema", MapT(<<Ent("examples", Num(2))>>)),
                  Ent("content", MapT(<<Ent("mt1", Media)>>))>>)>>),
    Media }

\* schema values that are mappings holding examples
SchemaEx ==
  UNION { { MapT(<<Ent("examples", e)>>),
            MapT(<<Ent("type", StrS), Ent("examples", e)>>),
            MapT(<<Ent("examples", e), Ent("type", StrS)>>) } : e \in ExVals }

\* schema values that are not mappings
SchemaBad ==
  { Null, Num(1), StrS, Str(EXAMPLES), Str(<<"x">> \o EXAMPLES),
    SeqT(<<Str(EXAMPLES)>>), SeqT(<<StrS>>) }

SchemaVals == SchemaEx \cup SchemaBad \cup {Obj, MapT(<<>>)}

\* values of the entries of a content mapping
CTVals ==
  { Media,
    MapT(<<Ent("schema", Obj), Ent("examples", Num(0))>>),
    MapT(<<Ent("examples", Num(0)), Ent("schema", Obj), Ent("x", StrS)>>),
    Obj,
    MapT(<<Ent("schema", MapT(<<Ent("examples", Num(3))>>)),
           Ent("content", MapT(<<Ent("mt1", Media)>>))>>),
    Null, Num(1), StrS, Str(SCHEMA), SeqT(<<Str(SCHEMA)>>), SeqT(<<StrS>>) }

CTSmall == { Media, Obj, Null }

MediaKeys == {"mt1", "mt2", "schema", "content"}

RECURSIVE ContentMaps(_)

\* content mappings with exactly n entries
ContentMaps(n) ==
  IF n = 0 THEN { MapT(<<>>) }
  ELSE IF n = 1 THEN { MapT(<<Ent(k, v)>>) : k \in MediaKeys, v \in CTVals }
  ELSE UNION { { MapT(Append(m.ents, Ent(k, v))) :
                   k \in { x \in MediaKeys : ~HasKey(m.ents, x) },
                   v \in CTSmall } : m \in ContentMaps(n - 1) }

ContentBad == { Null, Num(1), StrS, SeqT(<<>>) }

ContentVals ==
  ContentBad \cup UNION { ContentMaps(n) : n \in 0..MaxMedia }

ContentFew ==
  { MapT(<<>>),
    MapT(<<Ent("mt1", Media)>>),
    MapT(<<Ent("mt1", Obj)>>),
    MapT(<<Ent("mt1", Media),
           Ent("mt2", MapT(<<Ent("schema", Obj), Ent("examples", Num(0))>>))>>),
    MapT(<<Ent("schema", Media)>>),
    MapT(<<Ent("schema", Media), Ent("content", Media)>>) }

\* nodes with a schema entry and no content entry
NodesSchemaOnly ==
  UNION { { MapT(<<Ent("schema", sv)>>),
            MapT(<<Ent("schema", sv), Ent("description", StrS)>>),
            MapT(<<Ent("description", Media), Ent("schema", sv)>>) } :
          sv \in SchemaVals }

\* nodes with a schema entry and a content entry
NodesContent ==
  { MapT(<<Ent("schema", sv), Ent("content", cv)>>) :
      sv \in { MapT(<<Ent("examples", MapT(<<Ent("foo", Num(1))>>))>>),
               MapT(<<Ent("type", StrS), Ent("examples", Media)>>),
               Obj },
      cv \in ContentVals }
  \cup
  UNION { { MapT(<<Ent("schema", sv), Ent("content", cv)>>),
            MapT(<<Ent("content", cv), Ent("x", StrS), Ent("schema", sv)>>) } :
          sv \in SchemaEx, cv \in ContentFew }

\* nodes placed under enclosing mappings and sequences
CoreNodes ==
  { MapT(<<Ent("schema", MapT(<<Ent("type", StrS),
                                Ent("examples", MapT(<<Ent("foo", Num(1))>>))>>)),
           Ent("content", MapT(<<Ent("mt1", Media)>>))>>),
    MapT(<<Ent("schema", MapT(<<Ent("examples", StrS)>>))>>),
    MapT(<<Ent("schema", Obj), Ent("examples", Num(0))>>),
    MapT(<<Ent("examples", Num(0)),
           Ent("schema", MapT(<<Ent("examples", StrS)>>)),
           Ent("content", MapT(<<Ent("mt1", Media)>>))>>),
    Obj,
    StrS,
    MapT(<<Ent("schema", Null)>>) }

\* an enclosing mapping {k: _} for k in WrapKeys, or an enclosing list [s, _]
WrapKeys == {"paths", "schema", "content"}

Wrappers == WrapKeys \cup {"list"}

RECURSIVE Contexts(_)

\* the sequences of at most n wrappers, innermost first
Contexts(n) ==
  IF n = 0 THEN { <<>> }
  ELSE Contexts(n - 1) \cup
       { Append(c, w) : c \in { x \in Contexts(n - 1) : Len(x) = n - 1 },
                        w \in Wrappers }

Wrap1(w, t) ==
  IF w = "list" THEN SeqT(<<StrS, t>>) ELSE MapT(<<Ent(w, t)>>)

RECURSIVE WrapFrom(_, _, _)

WrapFrom(c, i, t) ==
  IF i > Len(c) THEN t ELSE WrapFrom(c, i + 1, Wrap1(c[i], t))

\* node t under the context c
Wrap(c, t) == WrapFrom(c, 1, t)

Inputs ==
  { [ctx |-> <<>>, node |-> n] : n \in NodesSchemaOnly \cup NodesContent }
  \cup { [ctx |-> c, node |-> n] : c \in Contexts(MaxWrap), n \in CoreNodes }

\* the document of an input
Doc(i) == Wrap(i.ctx, i.node)

(***************************************************************************)
(* Specification of the function: a document is loaded and fix_examples    *)
(* is called on it, then called again on its own result                    *)
(***************************************************************************)
NoFile == [kind |-> "missing"]

NoData == [heap |-> <<>>, root |-> Null]

InitRunIdle ==
  /\ pc = [at |-> "idle", file |-> 0]
  /\ disk = [f \in {1, 2} |-> NoFile]
  /\ data = NoData
  /\ printed = <<>>
  /\ ops = <<>>

Init ==
  /\ input \in Inputs
  /\ LET l == Load(<<>>, Doc(input))
     IN  heap = l.heap /\ root = l.val
  /\ err = "none"
  /\ log = <<>>
  /\ calls = 0
  /\ out1 = Null
  /\ InitRunIdle

\* data = fix_examples(data), first time
FirstCall ==
  /\ calls = 0
  /\ LET r == Call(heap, root)
     IN  /\ heap' = r.heap
         /\ root' = r.val
         /\ err' = r.err
         /\ log' = r.log
         /\ out1' = IF r.err = "none" THEN Dump(r.heap, r.val) ELSE Null
  /\ calls' = 1
  /\ UNCHANGED <<input, runVars>>

\* data = fix_examples(data) once more, on the result of the first call
SecondCall ==
  /\ calls = 1
  /\ err = "none"
  /\ LET r == Call(heap, root)
     IN  /\ heap' = r.heap
         /\ root' = r.val
         /\ err' = r.err
         /\ log' = r.log
  /\ calls' = 2
  /\ UNCHANGED <<input, out1, runVars>>

Next == FirstCall \/ SecondCall

Spec == Init /\ [][Next]_vars

(***************************************************************************)
(* Specification of the script (lines 27-49): the same five steps on       *)
(* faults/responses.yaml (file 1), then on data/responses.yaml (file 2)    *)
(***************************************************************************)
NumFiles == 2

FileIds == 1..NumFiles

\* the end-to-end document of the specification
DocRequestBody ==
  MapT(<<Ent("paths", MapT(<<Ent("/x", MapT(<<Ent("post", MapT(<<
    Ent("requestBody", MapT(<<
      Ent("schema", MapT(<<Ent("type", StrS),
                           Ent("examples", MapT(<<Ent("sample",
                              MapT(<<Ent("foo", Num(1))>>))>>))>>)),
      Ent("content", MapT(<<Ent("mt1", Media)>>))>>))>>))>>))>>))>>)

DiskDocs ==
  { DocRequestBody,
    MapT(<<Ent("info", SeqT(<<Obj, StrS>>))>>),
    MapT(<<Ent("schema", Null)>>),
    Null }

\* a file: missing, or present with a text that does not parse, with no
\* text at all, or with the text of a document; ro: not writable
Files ==
  { NoFile }
  \cup { [kind |-> "bad", ro |-> b] : b \in BOOLEAN }
  \cup { [kind |-> "empty", ro |-> b] : b \in BOOLEAN }
  \cup { [kind |-> "doc", ro |-> b, tree |-> t] : b \in BOOLEAN, t \in DiskDocs }

InitFnIdle ==
  /\ input = [ctx |-> <<>>, node |-> Null]
  /\ heap = <<>>
  /\ root = Null
  /\ err = "none"
  /\ log = <<>>
  /\ calls = 0
  /\ out1 = Null

RunInit ==
  /\ pc = [at |-> "read", file |-> 1]
  /\ disk \in [FileIds -> Files]
  /\ data = NoData
  /\ printed = <<>>
  /\ ops = <<>>
  /\ InitFnIdle

Op(o, f) == [op |-> o, file |-> f]

\* mutant of Abort: the exception is swallowed and the next file is tried
AbortSkips(f) ==
  IF f < NumFiles THEN [at |-> "read", file |-> f + 1]
                  ELSE [at |-> "aborted", file |-> f]

\* an uncaught exception ends the process
Abort(f) == [at |-> "aborted", file |-> f]

\* lines 29-30 / 41-42: with open(file_path, 'r') as f: data = yaml.safe_load(f)
\* (an empty text loads as None)
ReadFile(f) ==
  /\ pc = [at |-> "read", file |-> f]
  /\ IF disk[f].kind = "missing"
     THEN /\ pc' = Abort(f)
          /\ ops' = Append(ops, Op("open_r_failed", f))
          /\ UNCHANGED data
     ELSE IF disk[f].kind = "bad"
     THEN /\ pc' = Abort(f)
          /\ ops' = ops \o <<Op("open_r", f), Op("parse_failed", f)>>
          /\ UNCHANGED data
     ELSE /\ LET l == Load(<<>>, IF disk[f].kind = "empty" THEN Null
                                 ELSE disk[f].tree)
             IN  data' = [heap |-> l.heap, root |-> l.val]
          /\ pc' = [at |-> "fix", file |-> f]
          /\ ops' = ops \o <<Op("open_r", f), Op("parsed", f)>>
  /\ UNCHANGED <<disk, printed, fnVars>>

\* line 32 / 44: data = fix_examples(data)
FixData(f) ==
  /\ pc = [at |-> "fix", file |-> f]
  /\ LET r == Call(data.heap, data.root)
     IN  IF r.err # "none"
         THEN /\ pc' = Abort(f)
              /\ ops' = Append(ops, Op("fix_failed", f))
              /\ data' = [heap |-> r.heap, root |-> data.root]
         ELSE /\ pc' = [at |-> "open_w", file |-> f]
              /\ ops' = Append(ops, Op("fixed", f))
              /\ data' = [heap |-> r.heap, root |-> r.val]
  /\ UNCHANGED <<disk, printed, fnVars>>

\* line 34 / 46: open(file_path, 'w') truncates the file
OpenWrite(f) ==
  /\ pc = [at |-> "open_w", file |-> f]
  /\ IF disk[f].ro
     THEN /\ pc' = Abort(f)
          /\ ops' = Append(ops, Op("open_w_failed", f))
          /\ UNCHANGED disk
     ELSE /\ pc' = [at |-> "dump", file |-> f]
          /\ ops' = Append(ops, Op("open_w", f))
          /\ disk' = [disk EXCEPT ![f] = [kind |-> "empty", ro |-> FALSE]]
  /\ UNCHANGED <<data, printed, fnVars>>

\* line 35 / 47: yaml.dump(data, f, ...), then the file is closed
DumpFile(f) ==
  /\ pc = [at |-> "dump", file |-> f]
  /\ disk' = [disk EXCEPT ![f] = [kind |-> "doc", ro |-> FALSE,
                                  tree |-> Dump(data.heap, data.root)]]
  /\ pc' = [at |-> "print", file |-> f]
  /\ ops' = Append(ops, Op("written", f))
  /\ UNCHANGED <<data, printed, fnVars>>

\* line 37 / 49: print(f"Fixed {file_path}"); the script goes on to the
\* next file or ends
PrintFixed(f) ==
  /\ pc = [at |-> "print", file |-> f]
  /\ printed' = Append(printed, f)
  /\ ops' = Append(ops, Op("printed", f))
  /\ pc' = IF f < NumFiles THEN [at |-> "read", file |-> f + 1]
                           ELSE [at |-> "done", file |-> f]
  /\ UNCHANGED <<disk, data, fnVars>>

RunNext ==
  \E f \in FileIds :
    \/ ReadFile(f)
    \/ FixData(f)
    \/ OpenWrite(f)
    \/ DumpFile(f)
    \/ PrintFixed(f)

RunSpec == RunInit /\ [][RunNext]_vars

(***************************************************************************)
(* Vocabulary of the properties                                            *)
(***************************************************************************)
THas(t, k) == t.kind = "map" /\ HasKey(t.ents, k)

\* the entries es without the one under key k, order kept
WithoutKey(es, k) == SelectSeq(es, LAMBDA e : e.key # k)

TGet(t, k) == Get(t.ents, k)

\* a media-type entry that receives the examples: a mapping holding schema
TDest(t) == THas(t, "schema")

\* the document fix_examples returns for document t, when it returns
FixTree(t) ==
  LET l == Load(<<>>, t)
      r == Call(l.heap, l.val)
  IN  [err |-> r.err,
       tree |-> IF r.err = "none" THEN Dump(r.heap, r.val) ELSE Null]

\* node n has schema: {examples: E, ...}
TMatch(n) ==
  /\ THas(n, "schema")
  /\ THas(TGet(n, "schema"), "examples")

\* ... and content: {...}
TMatchContent(n) ==
  /\ TMatch(n)
  /\ THas(n, "content")
  /\ TGet(n, "content").kind = "map"

TExamples(n) == TGet(TGet(n, "schema"), "examples")

RECURSIVE HasPattern(_)

\* some mapping node of t has a schema child that is a mapping holding examples
HasPattern(t) ==
  IF t.kind = "map"
  THEN TMatch(t) \/ \E i \in 1..Len(t.ents) : HasPattern(t.ents[i].val)
  ELSE IF t.kind = "seq"
  THEN \E i \in 1..Len(t.elems) : HasPattern(t.elems[i])
  ELSE FALSE

\* the visits of the log, and what a visit found before lines 10-16 ran
Visits == 1..Len(log)

VEnts(v) == v.pre[v.node].ents

VHasSchema(v) == HasKey(VEnts(v), "schema")

VSchema(v) == Get(VEnts(v), "schema")

VMatch(v) ==
  /\ VHasSchema(v)
  /\ IsMapRef(v.pre, VSchema(v))
  /\ HasKey(v.pre[VSchema(v).a].ents, "examples")

VExamples(v) == Get(v.pre[VSchema(v).a].ents, "examples")

VHasContent(v) == HasKey(VEnts(v), "content")

VContent(v) == Get(VEnts(v), "content")

\* the entries of the content mapping that are mappings holding schema
VDests(v) ==
  { i \in 1..Len(v.pre[VContent(v).a].ents) :
      LET ct == v.pre[VContent(v).a].ents[i].val
      IN  IsMapRef(v.pre, ct) /\ HasKey(v.pre[ct.a].ents, "schema") }

VDestVal(v, i) == v.pre[VContent(v).a].ents[i].val

\* the input is a bare node (no enclosing context) and the first call returned
RootDone == calls = 1 /\ err = "none" /\ input.ctx = <<>>

(***************************************************************************)
(* C1 targeted relocation                                                  *)
(***************************************************************************)
\* C1 as claimed: for a node with schema {examples: E, ...} and a content
\* mapping, the returned tree has schema without examples (the other entries
\* kept) and examples = E on every content entry, whatever its key, that is
\* a mapping holding schema.
C1_RelocationAsClaimed ==
  (RootDone /\ TMatchContent(input.node)) =>
    LET n == input.node
        c == TGet(n, "content")
        oc == TGet(out1, "content")
    IN  /\ TGet(out1, "schema") = MapT(WithoutKey(TGet(n, "schema").ents, "examples"))
        /\ \A i \in 1..Len(c.ents) :
             TDest(c.ents[i].val) =>
               /\ THas(oc.ents[i].val, "examples")
               /\ TGet(oc.ents[i].val, "examples") = TExamples(n)

\* every visit that finds schema {examples: E, ...} and a content mapping and
\* finishes lines 10-16: schema has lost examples and kept the rest, and
\* every content entry that is a mapping holding schema has examples = E
C1_Step ==
  \A k \in Visits :
    LET v == log[k]
    IN  (VMatch(v) /\ VHasContent(v) /\ IsMapRef(v.pre, VContent(v))
         /\ v.err = "none") =>
          /\ v.post[VSchema(v).a].ents =
               WithoutKey(v.pre[VSchema(v).a].ents, "examples")
          /\ \A i \in VDests(v) :
               /\ HasKey(v.post[VDestVal(v, i).a].ents, "examples")
               /\ Get(v.post[VDestVal(v, i).a].ents, "examples") = VExamples(v)

\* in the returned tree the value has been rewritten by the recursion, and
\* the entry under the key schema has lost it again
C1_Returned ==
  (RootDone /\ TMatchContent(input.node)) =>
    LET n == input.node
        c == TGet(n, "content")
        oc == TGet(out1, "content")
    IN  /\ ~THas(TGet(out1, "schema"), "examples")
        /\ Keys(TGet(out1, "schema").ents) =
             Keys(WithoutKey(TGet(n, "schema").ents, "examples"))
        /\ \A i \in 1..Len(c.ents) :
             TDest(c.ents[i].val) =>
               IF c.ents[i].key = "schema"
               THEN ~THas(oc.ents[i].val, "examples")
               ELSE ~THas(c, "schema") =>
                      /\ THas(oc.ents[i].val, "examples")
                      /\ TGet(oc.ents[i].val, "examples") =
                           FixTree(TExamples(n)).tree

\* C1 amended: relocation holds at the moment the node is visited; the
\* returned tree holds fix_examples(E), and nothing under the key schema
C1_Relocation == (calls = 1 => C1_Step) /\ C1_Returned

\* C1 witness: two media types received an E that itself holds a pattern
C1_Witness ==
  /\ RootDone
  /\ TMatchContent(input.node)
  /\ ~THas(TGet(input.node, "content"), "schema")
  /\ Cardinality({ i \in 1..Len(TGet(input.node, "content").ents) :
                     TDest(TGet(input.node, "content").ents[i].val) }) >= 2
  /\ FixTree(TExamples(input.node)).tree # TExamples(input.node)
  /\ \E k \in Visits : VMatch(log[k]) /\ VHasContent(log[k])

(***************************************************************************)
(* C2 idempotence                                                          *)
(***************************************************************************)
\* C2: a second call on the result of a completed first call returns the
\* same tree, reaches line 12 at no node and changes no object
C2_Idempotent ==
  calls = 2 =>
    /\ err = "none"
    /\ Dump(heap, root) = out1
    /\ \A k \in Visits : ~log[k].moved /\ log[k].post = log[k].pre

\* C2 witness: the second call ran on a tree the first call had changed by
\* moving a value that itself held a pattern
C2_Witness ==
  /\ calls = 2
  /\ out1 # Doc(input)
  /\ input.ctx = <<>>
  /\ TMatchContent(input.node)
  /\ HasPattern(TExamples(input.node))

(***************************************************************************)
(* C3 no-op on non-matching input                                          *)
(***************************************************************************)
\* C3 as claimed: a tree in which no mapping has a schema child that is a
\* mapping holding examples is returned identical
C3_NoOpAsClaimed ==
  (calls = 1 /\ ~HasPattern(Doc(input))) =>
    (err = "none" /\ out1 = Doc(input))

(***************************************************************************)
(* C4 key and order preservation                                           *)
(***************************************************************************)
Dicts(h) == { a \in 1..Len(h) : h[a].kind = "map" }

\* the dicts on which the visit set the detached value under examples
Receivers(v) ==
  { a \in Dicts(v.pre) :
      /\ v.post[a] # v.pre[a]
      /\ HasKey(v.post[a].ents, "examples")
      /\ Get(v.post[a].ents, "examples") = VExamples(v) }

\* the dicts the code is to set it on: content's mappings that hold schema
DestDicts(v) ==
  IF VHasContent(v) /\ IsMapRef(v.pre, VContent(v))
  THEN { VDestVal(v, i).a : i \in VDests(v) }
  ELSE {}

\* a finished visit of a matched node: every such entry holds the detached
\* value, and no dict but these and the schema has changed
SetOnDests(v) ==
  /\ \A a \in DestDicts(v) :
       /\ HasKey(v.post[a].ents, "examples")
       /\ Get(v.post[a].ents, "examples") = VExamples(v)
  /\ \A a \in Dicts(v.pre) \ (DestDicts(v) \cup {VSchema(v).a}) :
       v.post[a] = v.pre[a]

\* lines 10-16 change the keys of a dict in two ways only: examples leaves
\* the matched schema, examples is set on a content entry holding schema (in
\* place when it was there, last when it was not)
KeysStep(v) ==
  \A a \in Dicts(v.pre) :
    LET kb == Keys(v.pre[a].ents)
        ka == Keys(v.post[a].ents)
    IN  /\ WithoutKey(v.post[a].ents, "examples") =
             WithoutKey(v.pre[a].ents, "examples")
        /\ ka # kb =>
             \/ /\ VMatch(v)
                /\ a = VSchema(v).a
                /\ ka = SelectSeq(kb, LAMBDA k : k # "examples")
             \/ /\ VMatch(v)
                /\ a \in DestDicts(v)
                /\ ka = Append(kb, "examples")

\* the recursion (lines 19-25) changes the keys of no dict: from the loaded
\* document to the first visit, from a visit to the next, from the last
\* visit to the returned document
KeysBetween ==
  /\ Len(log) > 0 => log[1].pre = Load(<<>>, Doc(input)).heap
  /\ \A k \in 1..(Len(log) - 1) :
       \A a \in Dicts(log[k].post) :
         Keys(log[k + 1].pre[a].ents) = Keys(log[k].post[a].ents)
  /\ (Len(log) > 0 /\ err = "none") =>
       \A a \in Dicts(log[Len(log)].post) :
         Keys(heap[a].ents) = Keys(log[Len(log)].post[a].ents)

KeysKept == KeysBetween /\ \A k \in Visits : KeysStep(log[k])

\* C4 as claimed: keys and their order are kept but for the relocation, and
\* an examples key is never deleted without being moved
C4_KeysAsClaimed ==
  calls = 1 =>
    /\ KeysKept
    /\ \A k \in Visits :
         (VMatch(log[k]) /\ log[k].err = "none") => Receivers(log[k]) # {}

\* C4 amended: keys and their order are kept but for the relocation; the
\* detached value ends on exactly the content entries that are mappings
\* holding schema, and is deleted without being moved when there is none
C4_Keys ==
  calls = 1 =>
    /\ KeysKept
    /\ \A k \in Visits :
         (VMatch(log[k]) /\ log[k].err = "none") =>
           /\ SetOnDests(log[k])
           /\ DestDicts(log[k]) = {} => Receivers(log[k]) = {}

\* C4 witness: one run in which a value was moved to a new last key, and a
\* value was deleted without being moved
C4_Witness ==
  /\ calls = 1
  /\ err = "none"
  /\ \E k \in Visits :
       /\ VMatch(log[k])
       /\ \E a \in DestDicts(log[k]) : ~HasKey(log[k].pre[a].ents, "examples")
  /\ \E k \in Visits : VMatch(log[k]) /\ Receivers(log[k]) = {}

(***************************************************************************)
(* C5 a schema that is not a mapping                                       *)
(***************************************************************************)
\* C5 as claimed: at a node whose schema is not a mapping, lines 10-16 take
\* no branch, raise nothing and change nothing
C5_MalformedSchemaAsClaimed ==
  calls = 1 =>
    \A k \in Visits :
      (VHasSchema(log[k]) /\ ~IsMapRef(log[k].pre, VSchema(log[k]))) =>
        /\ log[k].err = "none"
        /\ ~log[k].moved
        /\ log[k].post = log[k].pre

(***************************************************************************)
(* C6 a content that is not a mapping                                      *)
(***************************************************************************)
\* C6 as claimed: at a matched node whose content is not a mapping, examples
\* leaves schema, nothing else changes and nothing is raised
C6_BadContentAsClaimed ==
  calls = 1 =>
    \A k \in Visits :
      LET v == log[k]
      IN  (VMatch(v) /\ VHasContent(v) /\ ~IsMapRef(v.pre, VContent(v))) =>
            /\ v.err = "none"
            /\ v.post = [v.pre EXCEPT ![VSchema(v).a].ents =
                                         WithoutKey(@, "examples")]

(***************************************************************************)
(* C7 the destination guard                                                *)
(***************************************************************************)
\* C7 as claimed: at a matched node whose content is a mapping, examples is
\* set on exactly the values that are mappings holding schema; every other
\* value is left as it was and raises nothing
C7_DestinationsAsClaimed ==
  calls = 1 =>
    \A k \in Visits :
      LET v == log[k]
      IN  (VMatch(v) /\ VHasContent(v) /\ IsMapRef(v.pre, VContent(v))) =>
            /\ v.err = "none"
            /\ SetOnDests(v)

(***************************************************************************)
(* C8 a matched node without content                                       *)
(***************************************************************************)
\* node n with examples taken out of its schema
TDropExamples(n) ==
  MapT([i \in 1..Len(n.ents) |->
          IF n.ents[i].key = "schema"
          THEN Ent("schema", MapT(WithoutKey(n.ents[i].val.ents, "examples")))
          ELSE n.ents[i]])

RECURSIVE ReachDicts(_, _)

\* the dicts reachable from value v
ReachDicts(h, v) ==
  IF v.kind # "ref" THEN {}
  ELSE IF h[v.a].kind = "map"
  THEN {v.a} \cup UNION { ReachDicts(h, h[v.a].ents[i].val) :
                            i \in 1..Len(h[v.a].ents) }
  ELSE UNION { ReachDicts(h, h[v.a].elems[i]) : i \in 1..Len(h[v.a].elems) }

\* the call returned what the call on the bare node returns, put back under
\* the same enclosing mappings and sequences (or raised as that call raises)
SameAsBare ==
  LET r == FixTree(input.node)
  IN  /\ err = r.err
      /\ err = "none" => out1 = Wrap(input.ctx, r.tree)

\* the node is the schema value of its parent and holds an examples key of
\* its own: the parent matches the pattern too
ParentMatches ==
  /\ Len(input.ctx) >= 1
  /\ input.ctx[1] = "schema"
  /\ THas(input.node, "examples")

\* every dict of the returned document was visited
AllVisited ==
  err = "none" => ReachDicts(heap, root) \subseteq { log[k].node : k \in Visits }

OpsOf(f) == SelectSeq(ops, LAMBDA o : o.file = f)

Happened(o, f) == \E i \in 1..Len(ops) : ops[i] = Op(o, f)

\* what the script does to a file it rewrites, in order
FullRun(f) ==
  << Op("open_r", f), Op("parsed", f), Op("fixed", f), Op("open_w", f),
     Op("written", f), Op("printed", f) >>

\* a file is touched only after the file before it has been read, parsed,
\* rewritten, written back and confirmed
OneAfterTheOther ==
  \A j \in 1..Len(ops) :
    ops[j].file > 1 =>
      /\ j > Len(FullRun(1))
      /\ SubSeq(ops, 1, Len(FullRun(1))) = FullRun(1)

\* a file is opened for writing only after it was read and parsed
WriteAfterParse ==
  \A j \in 1..Len(ops) :
    ops[j].op \in {"open_w", "open_w_failed"} =>
      \E i \in 1..(j - 1) : ops[i] = Op("parsed", ops[j].file)

\* a failed read or parse is the last thing the process does: the file is
\* not written, its line is not printed, no later file is touched
FailureAborts ==
  \A j \in 1..Len(ops) :
    ops[j].op \in {"open_r_failed", "parse_failed"} =>
      /\ j = Len(ops)
      /\ pc = [at |-> "aborted", file |-> ops[j].file]
      /\ ~ENABLED RunNext
      /\ ~Happened("open_w", ops[j].file)
      /\ ~Happened("written", ops[j].file)
      /\ \A i \in 1..Len(printed) : printed[i] # ops[j].file
      /\ \A i \in 1..Len(ops) : ops[i].file <= ops[j].file

\* a file changes only while the script is writing it, and not after its
\* rewrite is complete
DiskSteps ==
  \A f \in FileIds :
    disk'[f] # disk[f] =>
      /\ pc.file = f
      /\ pc.at \in {"open_w", "dump"}
      /\ ~Happened("written", f)

\* C10: the files are processed strictly one after the other, a file is
\* opened for writing only after its read and parse succeeded, a failed read
\* or parse aborts the process without writing that file, printing its line
\* or touching a later file, and a rewritten file stays rewritten
C10_Sequential ==
  /\ [](OneAfterTheOther /\ WriteAfterParse /\ FailureAborts)
  /\ [][DiskSteps]_vars

\* C10 witness: file 1 was rewritten and confirmed, then file 2 failed to
\* parse and the process aborted
C10_Witness ==
  /\ pc = [at |-> "aborted", file |-> 2]
  /\ printed = <<1>>
  /\ Happened("parse_failed", 2)
  /\ disk[1].kind = "doc"
  /\ disk[1].tree # DocRequestBody
  /\ THas(disk[1].tree, "paths")
  /\ disk[2].kind = "bad"

====
